---- MODULE Spec2Model ----
(***************************************************************************)
(* The retention-aware broker of src/03_retention.py: Record, Topic,       *)
(* Broker and Consumer, with the clock that time.time() reads.             *)
(*                                                                         *)
(* A partition is a Python dict offset -> Record.  A dict keeps its keys   *)
(* in insertion order, and get_first_offset / get_last_offset read the     *)
(* first and the last key of that order, so a partition is modelled as the *)
(* sequence of its entries in insertion order, not as a set.               *)
(*                                                                         *)
(* Spec runs every call whole on one thread.  SpecRead adds direct calls   *)
(* of read_message, SpecTopics a second topic, SpecPair a second Consumer, *)
(* SpecOnce the order of the sends; SpecConc interleaves send_message      *)
(* calls and SpecPoll interleaves get_next_message with the other calls.   *)
(* SpecSimple is the list-based first stage, src/01_simple_kafka.py.       *)
(***************************************************************************)
EXTENDS Integers, Sequences, FiniteSets, TLC

VARIABLES
    topics,     \* Broker.topics: topic name -> Topic
    consumers,  \* the Consumer objects: id -> [topic, partition, offset]
    clock,      \* what time.time() returns
    producers,  \* the send_message calls in flight (interleaved runs only)
    assigned,   \* history: per topic and partition, the offsets ever assigned
    last,       \* history: the latest call, its arguments and its result
    polling,    \* the get_next_message calls in flight (interleaved runs only)
    hist,       \* history: the order of the sends and what each consumer got
    simple      \* the Broker and the Consumer of src/01_simple_kafka.py

vars == <<topics, consumers, clock, producers, assigned, last, polling, hist, simple>>

\* what the calls on the retention-aware broker, run whole, leave alone
rest == <<polling, hist, simple>>

----------------------------------------------------------------------------
\* Bounds of the model

\* the clock runs from 0 to MaxTime
MaxTime == 1
\* a send is made only while its partition holds fewer than MaxLen records
MaxLen == 2

TopicNames == {"sales"}
PartitionCounts == {1, 2}
RetentionChoices == {0, 1}
Messages == {"a", "m1"}
\* Python's None, as a key argument and as a return value
None == "None"
\* the key arguments of send_message: absent (the default), empty, and a name
Keys == {None, "", "a"}
ConsumerIds == {"c1"}
ProducerIds == {"p1", "p2"}
\* the partition and offset arguments of Consumer.__init__ (offset defaults to 0)
ConsumerPartitions == {0}
StartOffsets == {0}
\* the partition and offset arguments tried by callers of read_message
PartitionArgs == {0, 1, 2}
OffsetArgs == {0, 1, 2}

----------------------------------------------------------------------------
\* hashlib.sha1(key).hexdigest() of the byte strings the model sends, as the ten
\* 16-bit words (four hex digits each) of the 160-bit digest, most significant first
Sha1Words(key) ==
    CASE key = "a" ->   \* 86f7e437faa5a7fce15d1ddcb9eaeaea377667b8
           <<34551, 58423, 64165, 43004, 57693, 7644, 47594, 60138, 14198, 26552>>
      [] key = "m1" ->   \* ae23b94ccaf714337e4ce5ba99ef3dc257e300df
           <<44579, 47436, 51959, 5171, 32332, 58810, 39407, 15810, 22499, 223>>

\* int(hexdigest, 16) % n, by Horner's rule over the first i words
RECURSIVE WordsMod(_, _, _)
WordsMod(words, n, i) ==
    IF i = 0 THEN 0
    ELSE (WordsMod(words, n, i - 1) * 65536 + words[i]) % n

\* key = (key or message).encode('utf-8'): None and '' are both falsy
EncodedKey(key, message) ==
    IF key = None \/ key = "" THEN message ELSE key

PartitionOf(encoded, num_partitions) ==
    WordsMod(Sha1Words(encoded), num_partitions, 10)

\* lines 103-104: the partition send_message stores a message in
Route(message, key, num_partitions) ==
    PartitionOf(EncodedKey(key, message), num_partitions)

----------------------------------------------------------------------------
\* Record, Topic and the Broker's queries

Record(timestamp, key, message) ==
    [timestamp |-> timestamp, key |-> key, message |-> message]

Topic(num_partitions, retention_seconds) ==
    [num_partitions |-> num_partitions,
     retention_seconds |-> retention_seconds,
     partitions |-> [i \in 0 .. num_partitions - 1 |-> <<>>]]

\* list(dict): the keys of a partition in insertion order
Offsets(records) == [i \in 1 .. Len(records) |-> records[i].offset]

OffsetSet(records) == {records[i].offset : i \in 1 .. Len(records)}

\* a slip: 0 taken for the first available offset of a partition that holds records
get_first_offset_zero(topic_name, partition) ==
    IF topics[topic_name].partitions[partition] = <<>> THEN -1 ELSE 0

get_first_offset(topic_name, partition) ==
    LET offsets == Offsets(topics[topic_name].partitions[partition])
    IN  IF offsets = <<>> THEN -1 ELSE offsets[1]

get_last_offset(topic_name, partition) ==
    LET offsets == Offsets(topics[topic_name].partitions[partition])
    IN  IF offsets = <<>> THEN -1 ELSE offsets[Len(offsets)]

\* a slip: the record's key returned for its message
ReadInKey(tps, topic_name, partition, offset) ==
    LET parts == tps[topic_name].partitions
    IN  IF partition \notin DOMAIN parts THEN None
        ELSE LET records == parts[partition]
                 hit == {i \in 1 .. Len(records) : records[i].offset = offset}
             IN  IF hit = {} THEN None
                 ELSE records[CHOOSE i \in hit : TRUE].record.key

\* a slip: the offset taken for a position in a list, as in the earlier stages
ReadInByPosition(tps, topic_name, partition, offset) ==
    LET parts == tps[topic_name].partitions
    IN  IF partition \notin DOMAIN parts THEN None
        ELSE LET records == parts[partition]
             IN  IF offset + 1 \in 1 .. Len(records)
                 THEN records[offset + 1].record.message
                 ELSE None

\* topic.partitions[partition][offset].message, any exception giving None
ReadIn(tps, topic_name, partition, offset) ==
    LET parts == tps[topic_name].partitions
    IN  IF partition \notin DOMAIN parts THEN None
        ELSE LET records == parts[partition]
                 hit == {i \in 1 .. Len(records) : records[i].offset = offset}
             IN  IF hit = {} THEN None
                 ELSE records[CHOOSE i \in hit : TRUE].record.message

read_message(topic_name, partition, offset) ==
    ReadIn(topics, topic_name, partition, offset)

\* dict[offset] = record: a new key goes last, an existing key keeps its place
DictSet(records, offset, record) ==
    IF offset \in OffsetSet(records)
    THEN [i \in 1 .. Len(records) |->
             IF records[i].offset = offset
             THEN [offset |-> offset, record |-> record]
             ELSE records[i]]
    ELSE Append(records, [offset |-> offset, record |-> record])

\* a slip: a record deleted at the very end of its retention time
ExpiredAtDeadline(rec, retention_seconds, now) ==
    rec.timestamp + retention_seconds <= now

\* the test of Topic.vacuum for deleting a record
Expired(rec, retention_seconds, now) ==
    rec.timestamp + retention_seconds < now

VacuumPartition(records, retention_seconds, now) ==
    LET Keep(e) == ~Expired(e.record, retention_seconds, now)
    IN  SelectSeq(records, Keep)

VacuumTopic(topic, now) ==
    [topic EXCEPT !.partitions =
        [p \in DOMAIN topic.partitions |->
            VacuumPartition(topic.partitions[p], topic.retention_seconds, now)]]

----------------------------------------------------------------------------
\* The latest call

Call(op) ==
    [op |-> op, topic |-> None, partition |-> -1, offset |-> -1,
     consumer |-> None, ret |-> None, gap |-> FALSE, raised |-> None]

\* a thread that is not inside send_message
NoProducer ==
    [pc |-> "idle", topic |-> None, partition |-> -1,
     record |-> Record(-1, None, None), offset |-> -1]

\* a Consumer that is not inside get_next_message
NoPoll ==
    [pc |-> "idle", start |-> -1, oldest |-> -1, missed |-> FALSE]

\* nothing sent and nothing returned yet
NoHistory(ids) ==
    [count |-> <<>>, serial |-> <<>>,
     returned |-> [c \in ids |-> 0], covered |-> [c \in ids |-> 0]]

\* src/01_simple_kafka.py: Broker() and Consumer(broker, topic_name)
SimpleConsumerTopics == {"Michael"}

SimpleInit ==
    [topics : {<<>>},
     consumer : [topic_name : SimpleConsumerTopics, offset : StartOffsets]]

InitRest ==
    /\ polling = [c \in DOMAIN consumers |-> NoPoll]
    /\ hist = NoHistory(DOMAIN consumers)
    /\ simple \in SimpleInit

Init ==
    /\ topics = <<>>
    /\ consumers \in [ConsumerIds ->
           [topic : TopicNames, partition : ConsumerPartitions, offset : StartOffsets]]
    /\ clock = 0
    /\ producers = [p \in ProducerIds |-> NoProducer]
    /\ assigned = <<>>
    /\ last = Call("init")
    /\ InitRest

----------------------------------------------------------------------------
\* time passes
Tick ==
    /\ clock < MaxTime
    /\ clock' = clock + 1
    /\ last' = Call("tick")
    /\ UNCHANGED <<topics, consumers, producers, assigned>>

\* d[name] = value on a dict modelled as a function
Put(d, name, value) ==
    [n \in DOMAIN d \cup {name} |-> IF n = name THEN value ELSE d[n]]

create_topic(name, num_partitions, retention_seconds) ==
    /\ topics' = Put(topics, name, Topic(num_partitions, retention_seconds))
    /\ assigned' = Put(assigned, name, [p \in 0 .. num_partitions - 1 |-> {}])
    /\ last' = [Call("create_topic") EXCEPT !.topic = name]
    /\ UNCHANGED <<consumers, clock, producers>>

CreateTopic ==
    \E name \in TopicNames, n \in PartitionCounts, r \in RetentionChoices :
        create_topic(name, n, r)

\* a slip: the record stored under the offset in every partition of the topic
StoreInAll(tps, topic_name, partition, offset, record) ==
    [tps EXCEPT ![topic_name].partitions =
        [q \in DOMAIN @ |-> DictSet(@[q], offset, record)]]

\* topic.partitions[partition][offset] = record
StoreIn(tps, topic_name, partition, offset, record) ==
    [tps EXCEPT ![topic_name].partitions[partition] =
        DictSet(@, offset, record)]

AddTo(history, topic_name, index, values) ==
    [history EXCEPT ![topic_name][index] = @ \cup values]

\* Broker.send_message run from its first line to its last without interruption
send_message(topic_name, message, key) ==
    IF topic_name \notin DOMAIN topics
    THEN /\ last' = [Call("send_message") EXCEPT !.topic = topic_name,
                        !.raised = "KeyError"]
         /\ UNCHANGED <<topics, consumers, clock, producers, assigned>>
    ELSE LET topic == topics[topic_name]
             encoded == EncodedKey(key, message)
             partition == Route(message, key, topic.num_partitions)
             record == Record(clock, encoded, message)
             offset == get_last_offset(topic_name, partition) + 1
         IN  /\ Len(topic.partitions[partition]) < MaxLen
             /\ topics' = StoreIn(topics, topic_name, partition, offset, record)
             /\ assigned' = AddTo(assigned, topic_name, partition, {offset})
             /\ last' = [Call("send_message") EXCEPT !.topic = topic_name,
                            !.partition = partition, !.offset = offset]
             /\ UNCHANGED <<consumers, clock, producers>>

SendMessage ==
    \E topic_name \in TopicNames, message \in Messages, key \in Keys :
        send_message(topic_name, message, key)

\* Broker.vacuum: Topic.vacuum on every topic, with now = time.time()
vacuum ==
    /\ topics' = [t \in DOMAIN topics |-> VacuumTopic(topics[t], clock)]
    /\ last' = Call("vacuum")
    /\ UNCHANGED <<consumers, clock, producers, assigned>>

\* a consumer whose topic exists and whose partition is one of the topic's
Bound(c) ==
    /\ consumers[c].topic \in DOMAIN topics
    /\ consumers[c].partition \in DOMAIN topics[consumers[c].topic].partitions

\* a slip: the cursor left where it is
SkipAheadNever(offset, oldest_available_offset) ==
    offset

\* a slip: the cursor set to the oldest available offset on every poll
SkipAheadAlways(offset, oldest_available_offset) ==
    oldest_available_offset

\* lines 153-156: a cursor below the oldest available offset skips ahead to it
SkipAhead(offset, oldest_available_offset) ==
    IF oldest_available_offset > offset THEN oldest_available_offset ELSE offset

\* a slip: the newest offset taken for a count of records, one too far
HasNextByCount(offset, newest_available_offset) ==
    offset <= newest_available_offset + 1

\* line 159: there is something to read at the cursor
HasNext(offset, newest_available_offset) ==
    offset <= newest_available_offset

\* a slip: the cursor kept in one place for all consumers
SetOffsetOfAll(cs, c, offset) ==
    [d \in DOMAIN cs |-> [cs[d] EXCEPT !.offset = offset]]

\* self.offset = ...: the cursor belongs to the Consumer object
SetOffset(cs, c, offset) ==
    [cs EXCEPT ![c].offset = offset]

\* Consumer.get_next_message run without interruption
get_next_message(c) ==
    LET self == consumers[c]
    IN  IF ~Bound(c)
        THEN /\ last' = [Call("get_next_message") EXCEPT !.consumer = c,
                            !.raised = "KeyError"]
             /\ UNCHANGED <<topics, consumers, clock, producers, assigned>>
        ELSE LET oldest_available_offset == get_first_offset(self.topic, self.partition)
                 missed == oldest_available_offset > self.offset
                 offset == SkipAhead(self.offset, oldest_available_offset)
                 newest_available_offset == get_last_offset(self.topic, self.partition)
                 reads == HasNext(offset, newest_available_offset)
                 msg == IF reads
                        THEN read_message(self.topic, self.partition, offset)
                        ELSE None
             IN  /\ consumers' = SetOffset(consumers, c,
                                     IF reads THEN offset + 1 ELSE offset)
                 /\ last' = [Call("get_next_message") EXCEPT !.consumer = c,
                                !.topic = self.topic, !.partition = self.partition,
                                !.offset = offset, !.ret = msg, !.gap = missed]
                 /\ UNCHANGED <<topics, clock, producers, assigned>>

GetNextMessage == \E c \in ConsumerIds : get_next_message(c)

Next ==
    \/ Tick /\ UNCHANGED rest
    \/ CreateTopic /\ UNCHANGED rest
    \/ SendMessage /\ UNCHANGED rest
    \/ vacuum /\ UNCHANGED rest
    \/ GetNextMessage /\ UNCHANGED rest

\* every call runs from its first line to its last (one thread)
Spec == Init /\ [][Next]_vars

----------------------------------------------------------------------------
\* read_message called directly, on any topic name, partition and offset

ReadMessage ==
    \E topic_name \in TopicNames, partition \in PartitionArgs, offset \in OffsetArgs :
        /\ last' = IF topic_name \notin DOMAIN topics
                   THEN [Call("read_message") EXCEPT !.topic = topic_name,
                            !.partition = partition, !.offset = offset,
                            !.raised = "KeyError"]
                   ELSE [Call("read_message") EXCEPT !.topic = topic_name,
                            !.partition = partition, !.offset = offset,
                            !.ret = read_message(topic_name, partition, offset)]
        /\ UNCHANGED <<topics, consumers, clock, producers, assigned>>

NextRead ==
    \/ Tick /\ UNCHANGED rest
    \/ CreateTopic /\ UNCHANGED rest
    \/ SendMessage /\ UNCHANGED rest
    \/ vacuum /\ UNCHANGED rest
    \/ ReadMessage /\ UNCHANGED rest

SpecRead == Init /\ [][NextRead]_vars

----------------------------------------------------------------------------
\* a broker holding more than one topic

BrokerTopicNames == {"sales", "tax-return"}

\* create_topic's default for retention_seconds
DefaultRetention == 10

CreateBrokerTopic ==
    \E name \in BrokerTopicNames \ DOMAIN topics,
       num_partitions \in PartitionCounts :
        create_topic(name, num_partitions, DefaultRetention)

SendBrokerMessage ==
    \E topic_name \in BrokerTopicNames, message \in Messages, key \in Keys :
        send_message(topic_name, message, key)

NextTopics ==
    \/ CreateBrokerTopic /\ UNCHANGED rest
    \/ SendBrokerMessage /\ UNCHANGED rest
    \/ GetNextMessage /\ UNCHANGED rest

SpecTopics == Init /\ [][NextTopics]_vars

----------------------------------------------------------------------------
\* send_message called from several threads: a call is interrupted between
\* building its record (lines 102-105), computing its offset (line 106) and
\* storing the record (line 107)

\* lines 102-105
SendStart(p, topic_name, message, key) ==
    /\ producers[p].pc = "idle"
    /\ topic_name \in DOMAIN topics
    /\ LET topic == topics[topic_name]
           encoded == EncodedKey(key, message)
           partition == Route(message, key, topic.num_partitions)
       IN  /\ Len(topic.partitions[partition]) < MaxLen
           /\ producers' = [producers EXCEPT ![p] =
                  [pc |-> "get_last", topic |-> topic_name,
                   partition |-> partition,
                   record |-> Record(clock, encoded, message),
                   offset |-> -1]]
    /\ UNCHANGED <<topics, consumers, clock, assigned, last>>

\* line 106
SendGetLast(p) ==
    /\ producers[p].pc = "get_last"
    /\ producers' = [producers EXCEPT
           ![p].offset = get_last_offset(producers[p].topic, producers[p].partition) + 1,
           ![p].pc = "store"]
    /\ UNCHANGED <<topics, consumers, clock, assigned, last>>

\* line 107
SendStore(p) ==
    LET me == producers[p]
    IN  /\ me.pc = "store"
        /\ topics' = StoreIn(topics, me.topic, me.partition, me.offset, me.record)
        /\ assigned' = AddTo(assigned, me.topic, me.partition, {me.offset})
        /\ last' = [Call("send_message") EXCEPT !.topic = me.topic,
                       !.partition = me.partition, !.offset = me.offset]
        /\ producers' = [producers EXCEPT ![p] = NoProducer]
        /\ UNCHANGED <<consumers, clock>>

\* the topics are created before the threads start
CreateTopicOnce ==
    \E name \in TopicNames \ DOMAIN topics, n \in PartitionCounts,
       r \in RetentionChoices :
        create_topic(name, n, r)

SendStartStep ==
    \E p \in ProducerIds, topic_name \in TopicNames, message \in Messages,
       key \in Keys :
        SendStart(p, topic_name, message, key)

SendGetLastStep == \E p \in ProducerIds : SendGetLast(p)

SendStoreStep == \E p \in ProducerIds : SendStore(p)

NextConc ==
    \/ Tick /\ UNCHANGED rest
    \/ CreateTopicOnce /\ UNCHANGED rest
    \/ SendStartStep /\ UNCHANGED rest
    \/ SendGetLastStep /\ UNCHANGED rest
    \/ SendStoreStep /\ UNCHANGED rest

SpecConc == Init /\ [][NextConc]_vars

----------------------------------------------------------------------------
\* two Consumer objects reading the same partition of the same topic

PairIds == {"c1", "c2"}

InitPair ==
    /\ topics = <<>>
    /\ consumers \in [PairIds -> [topic : TopicNames,
                                  partition : ConsumerPartitions,
                                  offset : StartOffsets]]
    /\ clock = 0
    /\ producers = [p \in ProducerIds |-> NoProducer]
    /\ assigned = <<>>
    /\ last = Call("init")
    /\ InitRest

GetNextMessagePair == \E c \in PairIds : get_next_message(c)

\* the topic the consumers read, created once, with the one partition they read
CreateReadTopic ==
    \E name \in TopicNames \ DOMAIN topics, retention_seconds \in RetentionChoices :
        create_topic(name, Cardinality(ConsumerPartitions), retention_seconds)

NextPair ==
    \/ Tick /\ UNCHANGED rest
    \/ CreateReadTopic /\ UNCHANGED rest
    \/ SendMessage /\ UNCHANGED rest
    \/ vacuum /\ UNCHANGED rest
    \/ GetNextMessagePair /\ UNCHANGED rest

SpecPair == InitPair /\ [][NextPair]_vars

----------------------------------------------------------------------------
\* one thread, the topic created once, with the order of the sends kept: every
\* record sent to a partition gets the next serial number of that partition,
\* and for every consumer the serial number of the record it was returned
\* last is remembered, and the serial number up to which every record was
\* returned to it or passed over by a poll that reported missed messages

AfterSend(h, call) ==
    IF call.raised # None THEN h
    ELSE LET tp == <<call.topic, call.partition>>
             n == (IF tp \in DOMAIN h.count THEN h.count[tp] ELSE 0) + 1
         IN  [h EXCEPT !.count = Put(@, tp, n),
                       !.serial = Put(@, <<call.topic, call.partition, call.offset>>, n)]

AfterPoll(h, call) ==
    IF call.raised # None \/ call.ret = None THEN h
    ELSE LET s == h.serial[<<call.topic, call.partition, call.offset>>]
         IN  [h EXCEPT !.returned[call.consumer] = s,
                       !.covered[call.consumer] =
                           IF call.gap \/ s > @ THEN s ELSE @]

SendTracked ==
    /\ SendMessage
    /\ hist' = AfterSend(hist, last')
    /\ UNCHANGED <<polling, simple>>

PollTracked ==
    /\ GetNextMessage
    /\ hist' = AfterPoll(hist, last')
    /\ UNCHANGED <<polling, simple>>

NextOnce ==
    \/ Tick /\ UNCHANGED rest
    \/ CreateReadTopic /\ UNCHANGED rest
    \/ SendTracked
    \/ vacuum /\ UNCHANGED rest
    \/ PollTracked

SpecOnce == Init /\ [][NextOnce]_vars

----------------------------------------------------------------------------
\* get_next_message on one thread while vacuum, send_message and the clock
\* run on others: the poll gives way before each of its three calls on the
\* broker (nothing is locked)

\* line 152
PollFirst(c) ==
    /\ polling[c].pc = "idle"
    /\ Bound(c)
    /\ polling' = [polling EXCEPT ![c] =
           [pc |-> "get_last", start |-> consumers[c].offset,
            oldest |-> get_first_offset(consumers[c].topic, consumers[c].partition),
            missed |-> FALSE]]
    /\ UNCHANGED <<topics, consumers, clock, producers, assigned, last, hist, simple>>

\* lines 153-159; without something to read the call returns None
PollLast(c) ==
    LET self == consumers[c]
        me == polling[c]
        missed == me.oldest > self.offset
        offset == SkipAhead(self.offset, me.oldest)
        newest_available_offset == get_last_offset(self.topic, self.partition)
    IN  /\ me.pc = "get_last"
        /\ consumers' = SetOffset(consumers, c, offset)
        /\ IF HasNext(offset, newest_available_offset)
           THEN /\ polling' = [polling EXCEPT ![c].pc = "read",
                                              ![c].missed = missed]
                /\ UNCHANGED last
           ELSE /\ polling' = [polling EXCEPT ![c] = NoPoll]
                /\ last' = [Call("get_next_message") EXCEPT !.consumer = c,
                               !.topic = self.topic, !.partition = self.partition,
                               !.offset = offset, !.gap = missed]
        /\ UNCHANGED <<topics, clock, producers, assigned, hist, simple>>

\* lines 160-162
PollRead(c) ==
    LET self == consumers[c]
        me == polling[c]
        msg == read_message(self.topic, self.partition, self.offset)
    IN  /\ me.pc = "read"
        /\ consumers' = SetOffset(consumers, c, self.offset + 1)
        /\ polling' = [polling EXCEPT ![c] = NoPoll]
        /\ last' = [Call("get_next_message") EXCEPT !.consumer = c,
                       !.topic = self.topic, !.partition = self.partition,
                       !.offset = self.offset, !.ret = msg, !.gap = me.missed]
        /\ UNCHANGED <<topics, clock, producers, assigned, hist, simple>>

PollFirstStep == \E c \in ConsumerIds : PollFirst(c)

PollLastStep == \E c \in ConsumerIds : PollLast(c)

PollReadStep == \E c \in ConsumerIds : PollRead(c)

NextPoll ==
    \/ Tick /\ UNCHANGED rest
    \/ CreateReadTopic /\ UNCHANGED rest
    \/ SendMessage /\ UNCHANGED rest
    \/ vacuum /\ UNCHANGED rest
    \/ PollFirstStep
    \/ PollLastStep
    \/ PollReadStep

SpecPoll == Init /\ [][NextPoll]_vars

----------------------------------------------------------------------------
\* The first stage, src/01_simple_kafka.py: a topic is a list of messages, an
\* offset is a position in the list, and nothing is ever removed.  The
\* Consumer of src/02_partitions.py runs the same lines on one partition.

SimpleTopicNames == {"Michael", "Dwight"}

\* len(self.topics[topic_name])
simple_get_last_offset(topic_name) ==
    Len(simple.topics[topic_name])

\* self.topics[topic_name][offset], any exception giving None
simple_read_message(topic_name, offset) ==
    IF /\ topic_name \in DOMAIN simple.topics
       /\ offset + 1 \in 1 .. Len(simple.topics[topic_name])
    THEN simple.topics[topic_name][offset + 1]
    ELSE None

simple_create_topic(topic_name) ==
    /\ simple' = [simple EXCEPT !.topics = Put(@, topic_name, <<>>)]
    /\ last' = [Call("create_topic") EXCEPT !.topic = topic_name]
    /\ UNCHANGED <<topics, consumers, clock, producers, assigned, polling, hist>>

simple_send_message(topic_name, message) ==
    /\ IF topic_name \notin DOMAIN simple.topics
       THEN /\ last' = [Call("send_message") EXCEPT !.topic = topic_name,
                           !.raised = "KeyError"]
            /\ UNCHANGED simple
       ELSE /\ Len(simple.topics[topic_name]) < MaxLen
            /\ simple' = [simple EXCEPT !.topics[topic_name] = Append(@, message)]
            /\ last' = [Call("send_message") EXCEPT !.topic = topic_name,
                           !.offset = Len(simple.topics[topic_name])]
    /\ UNCHANGED <<topics, consumers, clock, producers, assigned, polling, hist>>

simple_get_next_message ==
    LET self == simple.consumer
    IN  /\ IF self.topic_name \notin DOMAIN simple.topics
           THEN /\ last' = [Call("get_next_message") EXCEPT !.topic = self.topic_name,
                               !.raised = "KeyError"]
                /\ UNCHANGED simple
           ELSE LET newest_available_offset == simple_get_last_offset(self.topic_name)
                IN  IF self.offset <= newest_available_offset
                    THEN /\ simple' = [simple EXCEPT !.consumer.offset = @ + 1]
                         /\ last' = [Call("get_next_message") EXCEPT
                                        !.topic = self.topic_name,
                                        !.offset = self.offset,
                                        !.ret = simple_read_message(self.topic_name,
                                                                    self.offset)]
                    ELSE /\ last' = [Call("get_next_message") EXCEPT
                                        !.topic = self.topic_name,
                                        !.offset = self.offset]
                         /\ UNCHANGED simple
        /\ UNCHANGED <<topics, consumers, clock, producers, assigned, polling, hist>>

SimpleCreateTopic == \E topic_name \in SimpleTopicNames : simple_create_topic(topic_name)

SimpleSendMessage ==
    \E topic_name \in SimpleTopicNames, message \in Messages :
        simple_send_message(topic_name, message)

NextSimple ==
    \/ SimpleCreateTopic
    \/ SimpleSendMessage
    \/ simple_get_next_message

SpecSimple == Init /\ [][NextSimple]_vars

----------------------------------------------------------------------------
\* What the claims speak of, defined apart from the broker's own queries

\* the offsets a partition holds a record for
LiveOffsets(topic_name, partition) ==
    OffsetSet(topics[topic_name].partitions[partition])

Lowest(S) == CHOOSE x \in S : \A y \in S : x <= y

Highest(S) == CHOOSE x \in S : \A y \in S : x >= y

\* the lowest and the highest live offset, -1 when there is none
OldestLive(topic_name, partition) ==
    IF LiveOffsets(topic_name, partition) = {} THEN -1
    ELSE Lowest(LiveOffsets(topic_name, partition))

NewestLive(topic_name, partition) ==
    IF LiveOffsets(topic_name, partition) = {} THEN -1
    ELSE Highest(LiveOffsets(topic_name, partition))

\* the entries (offset and record) of a partition, as a set
Entries(records) == {records[i] : i \in 1 .. Len(records)}

TopicPartitions ==
    {tp \in TopicNames \X PartitionArgs :
        /\ tp[1] \in DOMAIN topics
        /\ tp[2] \in DOMAIN topics[tp[1]].partitions}

\* C1: the offsets assigned to successive sends into a partition strictly
\* increase and none is assigned twice, also when a vacuum has evicted some
\* or all of the partition's records between two sends.
C1OffsetsNeverReused ==
    [][(last'.op = "send_message" /\ last'.raised = None)
        => \A o \in assigned[last'.topic][last'.partition] : o < last'.offset]_vars

\* C2: a poll made while the cursor is below the partition's oldest live
\* offset signals a gap, moves the cursor to the oldest live offset before it
\* reads, returns the record at that offset and leaves the cursor one past it.
C2GapDetection ==
    [][\A c \in ConsumerIds :
        (/\ last'.op = "get_next_message"
         /\ last'.consumer = c
         /\ Bound(c)
         /\ consumers[c].offset < OldestLive(consumers[c].topic, consumers[c].partition))
        => LET oldest == OldestLive(consumers[c].topic, consumers[c].partition)
               records == topics[consumers[c].topic].partitions[consumers[c].partition]
           IN  /\ last'.gap
               /\ last'.offset = oldest
               /\ \E e \in Entries(records) :
                     e.offset = oldest /\ last'.ret = e.record.message
               /\ consumers'[c].offset = oldest + 1]_vars

\* a poll has skipped from a cursor below the oldest live offset and returned
\* the record there
C2Witness ==
    \E c \in ConsumerIds :
        /\ last.op = "get_next_message"
        /\ last.consumer = c
        /\ last.gap
        /\ last.offset >= 1
        /\ last.ret \in Messages
        /\ consumers[c].offset = last.offset + 1

\* the cursor is past the newest live offset (any cursor on an empty partition)
CaughtUp(c) ==
    /\ Bound(c)
    /\ consumers[c].offset > NewestLive(consumers[c].topic, consumers[c].partition)

\* C3: once a consumer is caught up, every poll returns None and leaves the
\* cursor where it is, and the consumer stays caught up through polls, vacuums
\* and the passing of time, as long as nothing is sent.
C3CaughtUpIdempotent ==
    [][\A c \in ConsumerIds :
        CaughtUp(c) =>
            /\ (last'.op = "get_next_message" /\ last'.consumer = c)
                   => /\ last'.ret = None
                      /\ last'.raised = None
                      /\ ~last'.gap
                      /\ consumers'[c] = consumers[c]
            /\ last'.op \in {"get_next_message", "vacuum", "tick"}
                   => CaughtUp(c)']_vars

\* a consumer that has read a record, whose partition a vacuum has emptied
\* since, polls and gets None
C3Witness ==
    \E c \in ConsumerIds :
        /\ last.op = "get_next_message"
        /\ last.consumer = c
        /\ last.raised = None
        /\ last.ret = None
        /\ consumers[c].offset >= 1
        /\ CaughtUp(c)
        /\ LiveOffsets(consumers[c].topic, consumers[c].partition) = {}

\* C4: a vacuum run at a time t <= T + R leaves a record appended at T
\* readable at its offset; after a vacuum at a time t > T + R the record's
\* offset reads None, and it reads None ever after.
C4RetentionForGood ==
    [][\A tp \in TopicPartitions :
        LET t == tp[1]
            p == tp[2]
            R == topics[t].retention_seconds
        IN  /\ last'.op = "vacuum" =>
                \A e \in Entries(topics[t].partitions[p]) :
                    ReadIn(topics', t, p, e.offset) =
                        IF clock <= e.record.timestamp + R
                        THEN e.record.message ELSE None
            /\ last'.op # "create_topic" =>
                \A o \in assigned[t][p] \ LiveOffsets(t, p) :
                    ReadIn(topics', t, p, o) = None]_vars

\* C5: all messages sent to a topic with the same explicit key are stored in
\* one partition of the topic, whatever their payloads: the partition that
\* send_message stores to is in range and depends on the key alone.
C5SameKeySamePartition ==
    \A t \in DOMAIN topics :
        \A k \in Keys \ {None} :
            \A m \in Messages, m2 \in Messages :
                /\ Route(m, k, topics[t].num_partitions)
                       \in 0 .. topics[t].num_partitions - 1
                /\ Route(m, k, topics[t].num_partitions)
                       = Route(m2, k, topics[t].num_partitions)

\* C6: with send_message calls to one partition interleaved, every message is
\* stored at an offset no earlier send obtained, and no stored record is
\* overwritten or lost.
C6ConcurrentSendsDistinct ==
    [][\A p \in ProducerIds :
        (producers[p].pc = "store" /\ producers'[p].pc = "idle")
        => LET me == producers[p]
           IN  /\ me.offset \notin assigned[me.topic][me.partition]
               /\ Entries(topics[me.topic].partitions[me.partition])
                      \subseteq Entries(topics'[me.topic].partitions[me.partition])]_vars

\* C7: create_topic with a name that is already registered fails with
\* AlreadyExists and leaves the existing topic as it is.
C7CreateExistingFails ==
    [][\A name \in DOMAIN topics :
        (last'.op = "create_topic" /\ last'.topic = name)
        => /\ last'.raised = "AlreadyExists"
           /\ topics'[name] = topics[name]]_vars

\* C8: read_message on an existing topic with a partition index outside
\* [0, partition_count) ends in a failure the caller can tell from the None
\* that a missing or evicted offset of a valid partition gives.
C8InvalidPartitionFails ==
    \A t \in DOMAIN topics :
        \A p \in PartitionArgs \ DOMAIN topics[t].partitions :
            \A o \in OffsetArgs :
                read_message(t, p, o) # None

\* C9: get_first_offset is the lowest and get_last_offset the highest live
\* offset of the partition, and both are -1, below every offset, exactly when
\* the partition holds no record.
C9OffsetBoundaries ==
    \A tp \in TopicPartitions :
        LET live == LiveOffsets(tp[1], tp[2])
            first == get_first_offset(tp[1], tp[2])
            newest == get_last_offset(tp[1], tp[2])
        IN  /\ \A o \in live : o >= 0
            /\ live = {} => (first = -1 /\ newest = -1)
            /\ live # {} => (first = Lowest(live) /\ newest = Highest(live))

\* a partition that lost its first record to a vacuum and holds two later ones
C9Witness ==
    \E tp \in TopicPartitions :
        /\ Cardinality(LiveOffsets(tp[1], tp[2])) >= 2
        /\ get_first_offset(tp[1], tp[2]) >= 1
        /\ get_last_offset(tp[1], tp[2]) > get_first_offset(tp[1], tp[2])

\* C10: a vacuum at time now removes exactly the records with
\* created_at + retention_duration < now; the others keep their offset,
\* timestamp, key, payload and order, and the topics' configuration and the
\* consumers' cursors are unchanged.
C10VacuumFrame ==
    [][last'.op = "vacuum" =>
        /\ DOMAIN topics' = DOMAIN topics
        /\ consumers' = consumers
        /\ \A t \in DOMAIN topics :
            /\ topics'[t].num_partitions = topics[t].num_partitions
            /\ topics'[t].retention_seconds = topics[t].retention_seconds
            /\ DOMAIN topics'[t].partitions = DOMAIN topics[t].partitions
            /\ \A p \in DOMAIN topics[t].partitions :
                LET before == topics[t].partitions[p]
                    after == topics'[t].partitions[p]
                IN  /\ Entries(after) =
                          {e \in Entries(before) :
                              ~(e.record.timestamp + topics[t].retention_seconds < clock)}
                    /\ Len(after) = Cardinality(Entries(after))
                    /\ \A i \in 1 .. Len(after), j \in 1 .. Len(after) :
                          i < j => after[i].offset < after[j].offset]_vars

\* a vacuum has deleted a record of a partition and left a later one
C10Witness ==
    /\ last.op = "vacuum"
    /\ \E tp \in TopicPartitions :
          /\ LiveOffsets(tp[1], tp[2]) # {}
          /\ assigned[tp[1]][tp[2]] \ LiveOffsets(tp[1], tp[2]) # {}

\* C11: read_message returns the payload of the record stored at the offset
\* when the offset is live, returns None without raising for every offset that
\* is not live (never assigned, evicted, or offset 0 of a new empty
\* partition), and changes nothing of the broker.
C11ReadMessage ==
    [][(last'.op = "read_message" /\ last'.topic \in DOMAIN topics) =>
        LET t == last'.topic
            p == last'.partition
            o == last'.offset
        IN  /\ last'.raised = None
            /\ <<topics, consumers, clock, producers, assigned>>' =
                   <<topics, consumers, clock, producers, assigned>>
            /\ p \in DOMAIN topics[t].partitions =>
                  /\ o \in LiveOffsets(t, p) =>
                        \E e \in Entries(topics[t].partitions[p]) :
                            e.offset = o /\ last'.ret = e.record.message
                  /\ o \notin LiveOffsets(t, p) => last'.ret = None]_vars

\* a read of a live offset above 0 has returned a payload that differs from
\* the record's key, and offset 0, evicted before, reads None
C11Witness ==
    /\ last.op = "read_message"
    /\ last.raised = None
    /\ last.offset >= 1
    /\ last.ret \in Messages
    /\ \E e \in Entries(topics[last.topic].partitions[last.partition]) :
          e.offset = last.offset /\ e.record.key # e.record.message
    /\ 0 \in assigned[last.topic][last.partition]
    /\ read_message(last.topic, last.partition, 0) = None

\* C12: a successful send adds exactly one record to exactly one partition
\* of the named topic, the partition selected by routing, and changes
\* nothing else: not the other partitions, not any other topic, not a record
\* stored earlier, not a consumer's cursor.
C12SendFrame ==
    [][(last'.op = "send_message" /\ last'.raised = None) =>
        LET t == last'.topic
            p == last'.partition
            before == topics[t].partitions[p]
            after == topics'[t].partitions[p]
        IN  /\ Len(after) = Len(before) + 1
            /\ SubSeq(after, 1, Len(before)) = before
            /\ after[Len(after)].offset = last'.offset
            /\ p = PartitionOf(after[Len(after)].record.key,
                               topics[t].num_partitions)
            /\ DOMAIN topics' = DOMAIN topics
            /\ \A u \in DOMAIN topics \ {t} : topics'[u] = topics[u]
            /\ topics'[t].num_partitions = topics[t].num_partitions
            /\ topics'[t].retention_seconds = topics[t].retention_seconds
            /\ DOMAIN topics'[t].partitions = DOMAIN topics[t].partitions
            /\ \A q \in DOMAIN topics[t].partitions \ {p} :
                  topics'[t].partitions[q] = topics[t].partitions[q]
            /\ consumers' = consumers
            /\ clock' = clock]_vars

\* a send has just appended the second record of a partition of a topic with
\* two partitions, while the other partition and the other topic hold records
\* and the consumer's cursor stands above 0
C12Witness ==
    /\ last.op = "send_message"
    /\ last.raised = None
    /\ last.offset = 1
    /\ topics[last.topic].num_partitions = 2
    /\ topics[last.topic].partitions[1 - last.partition] # <<>>
    /\ \E u \in DOMAIN topics \ {last.topic} :
          \E q \in DOMAIN topics[u].partitions : topics[u].partitions[q] # <<>>
    /\ \E c \in ConsumerIds : consumers[c].offset > 0

\* C13: a consumer's cursor never decreases, whatever is called: it moves
\* forward by one when a record is returned, jumps forward over a gap, and
\* otherwise stays.
C13CursorMonotone ==
    [][\A c \in DOMAIN consumers :
        consumers'[c].offset >= consumers[c].offset]_vars

\* the cursor stands past the second record after a poll that found the
\* oldest record still live, so that a return to the oldest would be a step
\* back
C13Witness ==
    \E c \in DOMAIN consumers :
        /\ last.op = "get_next_message"
        /\ last.consumer = c
        /\ last.ret \in Messages
        /\ ~last.gap
        /\ consumers[c].offset = 2
        /\ OldestLive(consumers[c].topic, consumers[c].partition) = 0

\* the cursor after the gap adjustment: the lowest live offset when the cursor
\* is below it, the cursor itself otherwise
Adjusted(c) ==
    LET oldest == OldestLive(consumers[c].topic, consumers[c].partition)
    IN  IF consumers[c].offset < oldest THEN oldest ELSE consumers[c].offset

\* C15: whenever a poll, run without interruption, finds the cursor at or
\* below the newest live offset after the gap adjustment, it returns the
\* payload of the record stored at exactly that offset, never None, and
\* leaves the cursor exactly one past it.
C15InRangeReturns ==
    [][\A c \in DOMAIN consumers :
        (/\ last'.op = "get_next_message"
         /\ last'.consumer = c
         /\ Bound(c)
         /\ Adjusted(c) <= NewestLive(consumers[c].topic, consumers[c].partition))
        => LET cursor == Adjusted(c)
               records == topics[consumers[c].topic].partitions[consumers[c].partition]
           IN  /\ last'.offset = cursor
               /\ last'.ret # None
               /\ \E e \in Entries(records) :
                     e.offset = cursor /\ last'.ret = e.record.message
               /\ consumers'[c].offset = cursor + 1]_vars

\* a poll with no gap has returned the record at offset 1 of a partition
\* whose offset 0 has been evicted, so the record is not at the position its
\* offset would name
C15Witness ==
    \E c \in DOMAIN consumers :
        /\ last.op = "get_next_message"
        /\ last.consumer = c
        /\ ~last.gap
        /\ last.offset = 1
        /\ last.ret \in Messages
        /\ consumers[c].offset = 2
        /\ LiveOffsets(consumers[c].topic, consumers[c].partition) = {1}

\* C14: consumers are independent. A poll by one consumer changes only that
\* consumer's cursor: no record, no offset boundary, no other consumer's
\* cursor; and what it returns and where it leaves its cursor follow from its
\* own cursor and the partition's records alone, so each of two consumers of
\* the same partition, polled in any interleaving, gets the results it would
\* get polled alone against the same sends and vacuums.
C14ConsumersIndependent ==
    [][\A c \in DOMAIN consumers :
        (last'.op = "get_next_message" /\ last'.consumer = c /\ Bound(c)) =>
            LET t == consumers[c].topic
                p == consumers[c].partition
                cursor == Adjusted(c)
            IN  /\ topics' = topics
                /\ assigned' = assigned
                /\ clock' = clock
                /\ \A d \in DOMAIN consumers \ {c} : consumers'[d] = consumers[d]
                /\ consumers'[c].topic = t
                /\ consumers'[c].partition = p
                /\ last'.gap = (consumers[c].offset < OldestLive(t, p))
                /\ IF cursor <= NewestLive(t, p)
                   THEN /\ \E e \in Entries(topics[t].partitions[p]) :
                              e.offset = cursor /\ last'.ret = e.record.message
                        /\ consumers'[c].offset = cursor + 1
                   ELSE /\ last'.ret = None
                        /\ consumers'[c].offset = cursor]_vars

\* one consumer has just been returned the first record while the other,
\* polled before it, already stands past the second
C14Witness ==
    /\ DOMAIN consumers = PairIds
    /\ \E c \in PairIds, d \in PairIds :
          /\ c # d
          /\ consumers[c].topic = consumers[d].topic
          /\ consumers[c].partition = consumers[d].partition
          /\ last.op = "get_next_message"
          /\ last.consumer = c
          /\ last.ret \in Messages
          /\ consumers[c].offset = 1
          /\ consumers[d].offset = 2

\* C16: whenever a consumer's poll has returned None and a record is then
\* appended to the consumer's partition, the consumer is no longer caught up,
\* so that its next poll returns a record: for the first append to the
\* partition and equally for an append after a vacuum that emptied it.
C16AppendEndsCaughtUp ==
    [][\A c \in DOMAIN consumers :
        (/\ last.op = "get_next_message"
         /\ last.consumer = c
         /\ last.raised = None
         /\ last.ret = None
         /\ last'.op = "send_message"
         /\ last'.raised = None
         /\ last'.topic = consumers[c].topic
         /\ last'.partition = consumers[c].partition)
        => ~CaughtUp(c)']_vars

\* C17: a consumer polled from cursor 0 never loses a record silently: when
\* a poll returns a record, every record sent to the partition before it was
\* returned to this consumer by an earlier poll or was passed over by a poll
\* that reported missed messages; so a poll that reports nothing returns at
\* most the record that follows the ones accounted for.
C17NoSilentLoss ==
    [][\A c \in DOMAIN consumers :
        (/\ last'.op = "get_next_message"
         /\ last'.consumer = c
         /\ last'.ret # None
         /\ ~last'.gap)
        => hist'.returned[c] <= hist.covered[c] + 1]_vars

\* C19: the records returned by successive polls of one consumer come in the
\* order in which they were sent to the partition, and none is returned to
\* the same consumer twice, over any sequence of sends, vacuums and polls.
C19ReturnedInSendOrder ==
    [][\A c \in DOMAIN consumers :
        (/\ last'.op = "get_next_message"
         /\ last'.consumer = c
         /\ last'.ret # None)
        => hist'.returned[c] > hist.returned[c]]_vars

\* a consumer that was returned the first record sent has now been returned
\* a later one, after a vacuum that evicted the first
C19Witness ==
    \E c \in DOMAIN consumers :
        /\ last.op = "get_next_message"
        /\ last.consumer = c
        /\ last.ret \in Messages
        /\ hist.returned[c] >= 2
        /\ hist.covered[c] = hist.returned[c]
        /\ ~last.gap
        /\ 0 \notin LiveOffsets(consumers[c].topic, consumers[c].partition)

\* C18: when a vacuum runs between the steps of one poll (query the oldest
\* offset, query the newest offset, read the record, advance the cursor), the
\* poll still returns the record at its cursor or leaves the cursor where it
\* was when the poll began: no interleaving makes a poll advance the cursor
\* while it returns None.
C18NoAdvanceOnNone ==
    [][\A c \in DOMAIN consumers :
        (polling[c].pc # "idle" /\ polling'[c].pc = "idle")
        => \/ last'.ret # None
           \/ consumers'[c].offset = polling[c].start]_vars

\* C20: in the count-based stages a consumer that starts at offset 0 and
\* keeps calling get_next_message returns every message of its topic once and
\* in the order of the appends, also the messages appended after a call that
\* found nothing new: a call with a message at the consumer's offset returns
\* that message and moves the offset by one, and a call that finds nothing
\* new returns None and leaves the offset where it is.
C20CountBasedDelivery ==
    [][(/\ last'.op = "get_next_message"
        /\ last'.raised = None
        /\ simple.consumer.topic_name \in DOMAIN simple.topics
        /\ last'.topic = simple.consumer.topic_name)
       => LET log == simple.topics[simple.consumer.topic_name]
              offset == simple.consumer.offset
          IN  IF offset < Len(log)
              THEN /\ last'.ret = log[offset + 1]
                   /\ simple'.consumer.offset = offset + 1
              ELSE /\ last'.ret = None
                   /\ simple'.consumer.offset = offset]_vars

====
